---- MODULE Spec2Model ----
(***************************************************************************)
(* A model of dmlc-core's CSV parser (src/data/csv_parser.h):              *)
(*   - CSVParserParam::ExtractLabelColumnIndices and the CSVParser         *)
(*     constructor (the column-role configuration), and                    *)
(*   - CSVParser::ParseBlock (one block of bytes to one row block).        *)
(* Memory is a sequence of bytes; pointers are 1-based indices into it.    *)
(* The block is mem[begin .. end-1]; mem[end ..] is whatever follows the   *)
(* block in memory.                                                        *)
(***************************************************************************)
EXTENDS Integers, Sequences, FiniteSets, TLC

(***************************************************************************)
(* Bounds of the model.                                                    *)
(***************************************************************************)
\* the number of pieces a block of input is built from
MaxPieces == 4
\* the number of pieces a label_column string is built from
MaxLabelPieces == 4

(***************************************************************************)
(* Bytes.                                                                  *)
(***************************************************************************)
NL == "\n"
CR == "\r"
NUL == "NUL"
\* the three bytes of the UTF-8 byte-order mark
BOM == <<"EF", "BB", "BF">>
\* a value of DType or real_t: the number n, or the float NaN
Num(n) == [nan |-> FALSE, n |-> n]
NaN == [nan |-> TRUE, n |-> 0]
\* std::isnan
IsNaN(v) == v.nan

Digits == {"0", "1", "2", "3", "4", "5", "6", "7", "8", "9"}
HexDigits == Digits \cup {"a", "b", "c", "d", "e", "f"}
DigitVal ==
  ("0" :> 0) @@ ("1" :> 1) @@ ("2" :> 2) @@ ("3" :> 3) @@ ("4" :> 4) @@
  ("5" :> 5) @@ ("6" :> 6) @@ ("7" :> 7) @@ ("8" :> 8) @@ ("9" :> 9) @@
  ("a" :> 10) @@ ("b" :> 11) @@ ("c" :> 12) @@ ("d" :> 13) @@ ("e" :> 14) @@
  ("f" :> 15)

\* the sequences over S of length at most n
SeqsUpTo(S, n) == UNION {[1..k -> S] : k \in 0..n}

RECURSIVE Concat(_)
Concat(ss) == IF ss = <<>> THEN <<>> ELSE Head(ss) \o Concat(Tail(ss))

(***************************************************************************)
(* The inputs.                                                             *)
(***************************************************************************)
\* label_column strings are built from these pieces; the last one is a
\* digit string above the largest int
LabelPieces ==
  {<<"0">>, <<"2">>, <<",">>, <<"-">>, <<"+">>, <<"a">>,
   <<"9", "9", "9", "9", "9", "9", "9", "9", "9", "9">>}
\* "2,0,2,-1,abc,0"
ExampleLabelColumn ==
  <<"2", ",", "0", ",", "2", ",", "-", "1", ",", "a", "b", "c", ",", "0">>
LabelColumns ==
  {Concat(ps) : ps \in SeqsUpTo(LabelPieces, MaxLabelPieces)}
    \cup {ExampleLabelColumn}
\* the label_column strings of the block parser's runs: "", "2,0" and "-"
BlockLabelColumns == {<<>>, <<"2", ",", "0">>, <<"-">>}
Formats == {"csv", "libsvm"}
WeightColumns == {-1, 0, 1}
Delimiters == {<<",">>}
DTypes == {"float32", "int32", "int64"}

\* blocks of input are built from these pieces, or from those with fields
\* that hold the text nan
BlockPieces == {<<"1">>, <<",">>, <<"1", ",">>, <<NL>>, <<CR>>, BOM}
NaNPieces == {<<"1">>, <<",">>, <<NL>>, <<"n", "a", "n">>}
Blocks ==
  {Concat(ps) : ps \in SeqsUpTo(BlockPieces, MaxPieces)}
    \cup {Concat(ps) : ps \in SeqsUpTo(NaNPieces, MaxPieces)}
\* what follows the block in memory
Tails == {<<NUL, NUL>>, <<"1", NL>>}

VARIABLES
  pc,                   \* where the program is
  format, label_column, delimiter, weight_column,   \* CSVParserParam's fields
  DType,                \* the template parameter
  label_column_indices, \* std::map<int, int>, a function
  label_count,          \* 0 while not yet assigned
  list_pos,             \* the read position of the stringstream `list`
  output_index,
  mem, end,             \* the memory and the block's end in it
  out,                  \* the RowBlockContainer
  label, lbegin, lend, p, column_index, idx, weight   \* ParseBlock's locals

param == <<format, label_column, delimiter, weight_column, DType>>
ctor == <<label_column_indices, label_count, list_pos, output_index>>
block == <<mem, end, out, label, lbegin, lend, p, column_index, idx, weight>>
vars == <<pc, param, ctor, block>>

\* const char *begin
begin == 1

(***************************************************************************)
(* CSVParserParam::ExtractLabelColumnIndices                               *)
(***************************************************************************)
kLabelColumnListDelimiter == ","

\* std::getline(list, element, ','): the characters from pos to the next
\* ',' or to the end of the string
RECURSIVE GetlineElement(_, _)
GetlineElement(s, pos) ==
  IF pos > Len(s) \/ s[pos] = kLabelColumnListDelimiter THEN <<>>
  ELSE <<s[pos]>> \o GetlineElement(s, pos + 1)

\* the read position after that getline: past the ',' it stopped at
GetlineNext(s, pos) ==
  LET n == Len(GetlineElement(s, pos))
  IN IF pos + n <= Len(s) THEN pos + n + 1 ELSE pos + n

\* the number of leading digits of s from position i on
RECURSIVE DigitRun(_, _)
DigitRun(s, i) ==
  IF i <= Len(s) /\ s[i] \in Digits THEN 1 + DigitRun(s, i + 1) ELSE 0

\* std::numeric_limits<int>::max()
IntMax == 2147483647

\* the magnitude of the n decimal digits of s from position i on, as far as
\* an int holds it: kind "fits" with the value, "min" for exactly IntMax + 1
\* (the magnitude of the smallest int), "over" for anything larger
RECURSIVE Magnitude(_, _, _)
Magnitude(s, i, n) ==
  IF n = 0 THEN [kind |-> "fits", v |-> 0]
  ELSE LET m == Magnitude(s, i, n - 1)
           d == DigitVal[s[i + n - 1]]
       IN IF m.kind # "fits" THEN [kind |-> "over", v |-> 0]
          ELSE IF m.v < (IntMax \div 10) \/ (m.v = (IntMax \div 10) /\ d <= (IntMax % 10))
            THEN [kind |-> "fits", v |-> m.v * 10 + d]
          ELSE IF m.v = (IntMax \div 10) /\ d = (IntMax % 10) + 1
            THEN [kind |-> "min", v |-> 0]
          ELSE [kind |-> "over", v |-> 0]

\* std::stoi(element, &next): an optional sign and decimal digits;
\* throws std::invalid_argument when there is no digit and
\* std::out_of_range when the value is no int
Stoi(element) ==
  LET neg == element # <<>> /\ element[1] = "-"
      start == IF element # <<>> /\ element[1] \in {"-", "+"} THEN 2 ELSE 1
      n == DigitRun(element, start)
      m == Magnitude(element, start, n)
  IN IF n = 0 THEN [kind |-> "invalid_argument", value |-> 0, next |-> 0]
     ELSE IF m.kind = "over" \/ (m.kind = "min" /\ ~neg)
       THEN [kind |-> "out_of_range", value |-> 0, next |-> 0]
     ELSE [kind |-> "ok",
           value |-> IF m.kind = "min" THEN -IntMax - 1
                     ELSE IF neg THEN -m.v ELSE m.v,
           next |-> start - 1 + n]

\* isdigit(front) || front == '-' || front == '+'
FrontIsNumeric(front) == front \in Digits \cup {"-", "+"}

\* label_column_indices.insert({input_index, output_index})
MapInsert(m, k, v) == IF k \in DOMAIN m THEN m ELSE m @@ (k :> v)

\* one iteration of the while loop over the list's elements
ExtractElement ==
  /\ pc = "extract"
  /\ list_pos <= Len(label_column)
  /\ LET element == GetlineElement(label_column, list_pos)
         r == Stoi(element)
     IN /\ list_pos' = GetlineNext(label_column, list_pos)
        /\ IF element # <<>> /\ FrontIsNumeric(element[1])
           THEN IF r.kind # "ok"
                THEN /\ pc' = "ctor_exception"
                     /\ UNCHANGED <<label_column_indices, output_index>>
                ELSE /\ pc' = pc
                     /\ IF r.next = Len(element) /\ r.value >= 0
                        THEN /\ label_column_indices' =
                                  MapInsert(label_column_indices, r.value, output_index)
                             /\ output_index' =
                                  IF r.value \in DOMAIN label_column_indices
                                  THEN output_index ELSE output_index + 1
                        ELSE UNCHANGED <<label_column_indices, output_index>>
           ELSE /\ pc' = pc
                /\ UNCHANGED <<label_column_indices, output_index>>
  /\ UNCHANGED <<param, label_count, block>>

\* label_count = (size > 1 ? size : 1)
LabelCountOf(m) ==
  IF Cardinality(DOMAIN m) > 1 THEN Cardinality(DOMAIN m) ELSE 1

\* the loop ends (getline fails at the end of the string) and label_count
\* is assigned
ExtractDone ==
  /\ pc = "extract"
  /\ list_pos > Len(label_column)
  /\ label_count' = LabelCountOf(label_column_indices)
  /\ pc' = "ctor_check"
  /\ UNCHANGED <<param, label_column_indices, list_pos, output_index, block>>

(***************************************************************************)
(* CSVParser::CSVParser: the two checks after the extraction               *)
(***************************************************************************)
CtorChecks ==
  /\ pc = "ctor_check"
  /\ pc' = IF format # "csv" THEN "ctor_fatal"
           ELSE IF weight_column \in DOMAIN label_column_indices THEN "ctor_fatal"
           ELSE "ready"
  /\ UNCHANGED <<param, ctor, block>>

(***************************************************************************)
(* Memory and the numeric field parser                                     *)
(***************************************************************************)
Newlines == {NL, CR}

\* *q; SEGV stands for a read past the memory of the model
SEGV == "SEGV"
Rd(q) == IF q \in 1..Len(mem) THEN mem[q] ELSE SEGV

\* the number of bytes from q on that are in S
RECURSIVE Run(_, _)
Run(q, S) == IF Rd(q) \in S THEN 1 + Run(q + 1, S) ELSE 0

\* the value of the n digits at q .. q+n-1 in base b
RECURSIVE BaseVal(_, _, _)
BaseVal(q, n, b) ==
  IF n = 0 THEN 0 ELSE BaseVal(q, n - 1, b) * b + DigitVal[Rd(q + n - 1)]

\* where the number starts: past an optional sign
AfterSign(q) == IF Rd(q) \in {"-", "+"} THEN q + 1 ELSE q
Signed(q, v) == IF Rd(q) = "-" THEN -v ELSE v

\* strtof(q, &endptr): an optional sign and then "nan" or decimal digits;
\* nothing is consumed (endptr = q, value 0) when no number starts at q
Strtof(q) ==
  LET s == AfterSign(q)
      n == Run(s, Digits)
  IN IF Rd(s) = "n" /\ Rd(s + 1) = "a" /\ Rd(s + 2) = "n"
       THEN [v |-> NaN, endptr |-> s + 3]
     ELSE IF n = 0 THEN [v |-> Num(0), endptr |-> q]
     ELSE [v |-> Num(Signed(q, BaseVal(s, n, 10))), endptr |-> s + n]

\* strtoll(q, &endptr, 0): an optional sign, then 0x and hexadecimal digits,
\* or 0 and octal digits, or decimal digits
Strtoll(q) ==
  LET s == AfterSign(q)
      hex == Run(s + 2, HexDigits)
      oct == Run(s, {"0", "1", "2", "3", "4", "5", "6", "7"})
      dec == Run(s, Digits)
  IN IF Rd(s) = "0" /\ Rd(s + 1) = "x" /\ hex > 0
       THEN [v |-> Num(Signed(q, BaseVal(s + 2, hex, 16))), endptr |-> s + 2 + hex]
     ELSE IF Rd(s) = "0"
       THEN [v |-> Num(Signed(q, BaseVal(s, oct, 8))), endptr |-> s + oct]
     ELSE IF dec = 0 THEN [v |-> Num(0), endptr |-> q]
     ELSE [v |-> Num(Signed(q, BaseVal(s, dec, 10))), endptr |-> s + dec]

\* the branches on DType (a fourth type is not among DTypes); the values
\* of the model fit 32 bits, so the casts to int32_t and int64_t change
\* nothing
ParseField(q) ==
  IF DType = "float32" THEN Strtof(q) ELSE Strtoll(q)

(***************************************************************************)
(* CSVParser::ParseBlock                                                   *)
(***************************************************************************)
\* RowBlockContainer::Clear, and out->label_count = param_.label_count
ClearedOut ==
  [value |-> <<>>, index |-> <<>>, offset |-> <<0>>, label |-> <<>>,
   weight |-> <<>>, label_count |-> label_count]

\* std::fill(label.begin(), label.end(), DType(0.0f))
FillLabel(l) == [i \in 1..Len(l) |-> Num(0)]

\* while ((lbegin != end) && (*lbegin == '\n' || *lbegin == '\r')) ++lbegin
RECURSIVE SkipLeadingNewlines(_, _, _)
SkipLeadingNewlines(m, e, q) ==
  IF q # e /\ m[q] \in Newlines THEN SkipLeadingNewlines(m, e, q + 1) ELSE q

\* the call: out is cleared, the label vector is made, and the newlines
\* the block starts with are skipped
ParseBlockStart ==
  /\ pc = "ready"
  /\ \E b \in Blocks, t \in Tails :
       /\ mem' = b \o t
       /\ end' = begin + Len(b)
       /\ lbegin' = SkipLeadingNewlines(b \o t, begin + Len(b), begin)
  /\ out' = ClearedOut
  /\ label' = [i \in 1..label_count |-> Num(0)]
  /\ lend' = begin
  /\ p' = begin /\ column_index' = 0 /\ idx' = 0 /\ weight' = NaN
  /\ pc' = "outer"
  /\ UNCHANGED <<param, ctor>>

\* TextParserBase::IgnoreUTF8BOM(&lbegin, &end): past the byte-order mark
\* when its three bytes are at q, before the end
IgnoreUTF8BOM(q) ==
  IF \A k \in 0..2 : (\A j \in 0..k : q + j # end) /\ Rd(q + k) = BOM[k + 1]
  THEN q + 3 ELSE q

\* lend = lbegin + 1; while (lend != end && *lend != '\n' && *lend != '\r') ++lend
RECURSIVE ScanLineEnd(_)
ScanLineEnd(q) ==
  IF q = end \/ Rd(q) \in Newlines \cup {SEGV} THEN q ELSE ScanLineEnd(q + 1)

\* the head of the outer loop's body: the line's start and end, and the
\* row's locals
LineStart ==
  /\ pc = "outer"
  /\ lbegin # end
  /\ LET lb == IgnoreUTF8BOM(lbegin)
         le == ScanLineEnd(lb + 1)
     IN /\ lbegin' = lb
        /\ lend' = le
        /\ IF Rd(lbegin) = SEGV \/ (le # end /\ Rd(le) = SEGV)
           THEN /\ pc' = "fault"
                /\ UNCHANGED <<p, column_index, idx, label, weight>>
           ELSE /\ pc' = "inner"
                /\ p' = lb
                /\ column_index' = 0
                /\ idx' = 0
                /\ label' = FillLabel(label)
                /\ weight' = NaN
  /\ UNCHANGED <<param, ctor, mem, end, out>>

\* the branch a column takes (first, without the test of DType)
RoleAnyDType(c) ==
  IF c \in DOMAIN label_column_indices THEN "label"
  ELSE IF c = weight_column THEN "weight"
  ELSE "feature"
Role(c) ==
  IF c \in DOMAIN label_column_indices THEN "label"
  ELSE IF DType = "float32" /\ c = weight_column THEN "weight"
  ELSE "feature"

\* while (*p != param_.delimiter[0] && p != lend) ++p
RECURSIVE ScanDelimiter(_)
ScanDelimiter(q) ==
  IF Rd(q) # delimiter[1] /\ q # lend THEN ScanDelimiter(q + 1) ELSE q

\* one iteration of the inner loop: one field
Field ==
  /\ pc = "inner"
  /\ p # lend
  /\ LET r == ParseField(p)
         role == Role(column_index)
         idx1 == IF role = "feature" THEN idx + 1 ELSE idx
         p1 == IF r.endptr >= lend THEN lend ELSE r.endptr
         p2 == ScanDelimiter(p1)
     IN /\ label' = IF role = "label"
                    THEN [label EXCEPT ![label_column_indices[column_index] + 1] = r.v]
                    ELSE label
        /\ weight' = IF role = "weight" THEN r.v ELSE weight
        /\ out' = IF role = "feature" /\ r.endptr # p
                  THEN [out EXCEPT !.value = Append(@, r.v),
                                   !.index = Append(@, idx)]
                  ELSE out
        /\ idx' = idx1
        /\ column_index' = column_index + 1
        /\ IF p2 = lend /\ idx1 = 0
           THEN pc' = "fatal_delimiter" /\ p' = p2
           ELSE pc' = pc /\ p' = IF p2 # lend THEN p2 + 1 ELSE p2
  /\ UNCHANGED <<param, ctor, mem, end, lbegin, lend>>

\* while ((*lend == '\n' || *lend == '\r') && lend != end) ++lend
RECURSIVE SkipNewlines(_)
SkipNewlines(q) ==
  IF Rd(q) \in Newlines /\ q # end THEN SkipNewlines(q + 1) ELSE q

\* the row's weight goes to out->weight unless it is NaN
PushWeight(ws, w) == IF ~IsNaN(w) THEN Append(ws, w) ELSE ws

\* the end of the outer loop's body: the newlines after the line are
\* skipped and the row is closed
RowClose ==
  /\ pc = "inner"
  /\ p = lend
  /\ LET le == SkipNewlines(lend)
     IN IF Rd(le) = SEGV
        THEN /\ pc' = "fault"
             /\ lend' = le
             /\ UNCHANGED <<lbegin, out>>
        ELSE /\ pc' = "outer"
             /\ lend' = le
             /\ lbegin' = le
             /\ out' = [out EXCEPT !.label = @ \o label,
                                   !.weight = PushWeight(@, weight),
                                   !.offset = Append(@, Len(out.index))]
  /\ UNCHANGED <<param, ctor, mem, end, label, p, column_index, idx, weight>>

\* the four checks after the loop (first, without the check of weight)
FinalChecksNoWeight(o) ==
  /\ o.label_count > 0
  /\ Len(o.label) % o.label_count = 0
  /\ (Len(o.label) \div o.label_count) + 1 = Len(o.offset)
FinalChecks(o) ==
  /\ o.label_count > 0
  /\ Len(o.label) % o.label_count = 0
  /\ (Len(o.label) \div o.label_count) + 1 = Len(o.offset)
  /\ (Len(o.weight) = 0 \/ Len(o.weight) + 1 = Len(o.offset))

\* the outer loop ends and the block's checks are made
Finish ==
  /\ pc = "outer"
  /\ lbegin = end
  /\ pc' = IF FinalChecks(out) THEN "done" ELSE "fatal_check"
  /\ UNCHANGED <<param, ctor, block>>

EmptyOut ==
  [value |-> <<>>, index |-> <<>>, offset |-> <<>>, label |-> <<>>,
   weight |-> <<>>, label_count |-> 0]

InitCtorState ==
  /\ pc = "extract"
  /\ label_column_indices = <<>>
  /\ label_count = 0
  /\ list_pos = 1
  /\ output_index = 0
  /\ mem = <<NUL>> /\ end = begin
  /\ out = EmptyOut
  /\ label = <<>> /\ lbegin = begin /\ lend = begin /\ p = begin
  /\ column_index = 0 /\ idx = 0 /\ weight = NaN

\* construction alone, over many label_column strings
InitCtor ==
  /\ format \in Formats
  /\ label_column \in LabelColumns
  /\ delimiter \in Delimiters
  /\ weight_column \in WeightColumns
  /\ DType = "float32"
  /\ InitCtorState

NextCtor == ExtractElement \/ ExtractDone \/ CtorChecks

SpecCtor == InitCtor /\ [][NextCtor]_vars

\* construction and then the parse of blocks
Init ==
  /\ format \in Formats
  /\ label_column \in BlockLabelColumns
  /\ delimiter \in Delimiters
  /\ weight_column \in WeightColumns
  /\ DType \in DTypes
  /\ InitCtorState

Next ==
  \/ ExtractElement \/ ExtractDone \/ CtorChecks
  \/ ParseBlockStart \/ LineStart \/ Field \/ RowClose \/ Finish

Spec == Init /\ [][Next]_vars

(***************************************************************************)
(* The claims.                                                             *)
(***************************************************************************)
\* a line of the block starts at i: a byte that is no newline, at the
\* block's start or after a newline
LineStartsAt(i) ==
  /\ mem[i] \notin Newlines
  /\ (i = begin \/ mem[i - 1] \in Newlines)

\* the maximal runs of bytes other than '\n' and '\r' in the block
NumLines == Cardinality({i \in begin..(end - 1) : LineStartsAt(i)})

\* the block has a line in which the delimiter does not occur
HasLineWithoutDelimiter ==
  \E i \in begin..(end - 1) :
    /\ LineStartsAt(i)
    /\ \A j \in i..(end - 1) :
         (\A k \in i..j : mem[k] \notin Newlines) => mem[j] # delimiter[1]

\* column c is a feature column: no label column, and not the weight
\* column of the float representation
IsFeatureColumn(c) ==
  /\ c \notin DOMAIN label_column_indices
  /\ ~(DType = "float32" /\ c = weight_column)

\* the number of feature columns among the columns 0 .. c-1
FeatureColumnsBefore(c) ==
  Cardinality({k \in 0..(c - 1) : IsFeatureColumn(k)})

\* the number of rows closed so far
Rows == Len(out.offset) - 1

\* C1: when ParseBlock returns without a fatal failure, the row block has
\* label.length mod label_count = 0, label.length / label_count + 1 =
\* offset.length, weight.length = 0 or weight.length + 1 = offset.length,
\* and index.length = value.length; also when the rows differ in their
\* numbers of columns.
C1_InvariantsOnReturn ==
  pc = "done" =>
    /\ Len(out.label) % out.label_count = 0
    /\ (Len(out.label) \div out.label_count) + 1 = Len(out.offset)
    /\ (Len(out.weight) = 0 \/ Len(out.weight) + 1 = Len(out.offset))
    /\ Len(out.index) = Len(out.value)

\* ParseBlock has returned two rows with a weight each and with different
\* numbers of columns
C1_RaggedRowsReturned ==
  /\ pc = "done"
  /\ Rows = 2
  /\ Len(out.weight) = 2
  /\ out.offset[2] - out.offset[1] # out.offset[3] - out.offset[2]

\* C2: ParseBlock fails fatally on every block with a line in which the
\* delimiter does not occur, whatever the role of column 0: it never
\* returns from such a block.
C2_NoDelimiterIsFatal ==
  pc = "done" => ~HasLineWithoutDelimiter

\* C3: the fatal failure "delimiter not found" is raised only for a line in
\* which the delimiter does not occur.
C3_FatalOnlyWithoutDelimiter ==
  pc = "fatal_delimiter" =>
    \A k \in lbegin..(lend - 1) : Rd(k) # delimiter[1]

\* C4: an entry appended to index is the number of feature columns before
\* its field's column; a feature field of which the numeric parse consumes
\* nothing appends nothing to index and value and still advances the
\* counter; a label or weight column appends nothing and leaves the
\* counter alone.
C4_FeatureIndex ==
  [][(pc = "inner" /\ p # lend) =>
       /\ idx = FeatureColumnsBefore(column_index)
       /\ idx' = FeatureColumnsBefore(column_index + 1)
       /\ IF IsFeatureColumn(column_index) /\ ParseField(p).endptr # p
          THEN /\ out'.index = Append(out.index, FeatureColumnsBefore(column_index))
               /\ out'.value = Append(out.value, ParseField(p).v)
          ELSE out' = out]_vars

\* "1,,1" has been parsed, with no label and no weight column
C4_EmptyFieldSkipped ==
  /\ pc = "done"
  /\ SubSeq(mem, begin, end - 1) = <<"1", ",", ",", "1">>
  /\ out.value = <<Num(1), Num(1)>>
  /\ out.index = <<0, 2>>

\* the comma-separated entries of s from position pos on
RECURSIVE Entries(_, _)
Entries(s, pos) ==
  IF pos > Len(s) THEN <<>>
  ELSE <<GetlineElement(s, pos)>> \o Entries(s, GetlineNext(s, pos))

\* the entry is a non-negative integer and nothing else: an optional sign
\* and digits, with a value of at least 0
IsNonNegativeInteger(e) ==
  /\ e # <<>>
  /\ LET start == IF e[1] \in {"-", "+"} THEN 2 ELSE 1
     IN /\ start <= Len(e)
        /\ \A i \in start..Len(e) : e[i] \in Digits
        /\ e[1] = "-" => \A i \in start..Len(e) : e[i] = "0"

\* the map the entries es build on top of m: first occurrence wins, the
\* slots are given in order
RECURSIVE BuiltMap(_, _)
BuiltMap(es, m) ==
  IF es = <<>> THEN m
  ELSE LET e == Head(es)
           accepted == IsNonNegativeInteger(e) /\ Stoi(e).kind = "ok"
                       /\ Stoi(e).value \notin DOMAIN m
       IN BuiltMap(Tail(es),
                   IF accepted THEN m @@ (Stoi(e).value :> Cardinality(DOMAIN m))
                   ELSE m)

\* C5: once ExtractLabelColumnIndices has run, the map is the one the
\* entries build (accepted entries get the slots 0, 1, 2, ... in first-seen
\* order, every other entry changes nothing) and label_count is
\* max(1, number of accepted entries).
C5_LabelMapBuilt ==
  pc # "extract" =>
    /\ label_column_indices = BuiltMap(Entries(label_column, 1), <<>>)
    /\ label_count = IF Cardinality(DOMAIN label_column_indices) > 1
                     THEN Cardinality(DOMAIN label_column_indices) ELSE 1

\* C6: no label_column entry aborts construction: the only fatal outcomes
\* are format != "csv" and the weight column being a key of the label map.
C6_NoEntryAborts ==
  /\ pc # "ctor_exception"
  /\ pc = "ctor_fatal" =>
       format # "csv" \/ weight_column \in DOMAIN label_column_indices

\* C7: when a row is closed, under the float representation with a weight
\* column, a row with a field at the weight column appends that field's
\* value to weight; every other row, and every row of the integer
\* representations, appends nothing to weight.
C7_WeightPerRow ==
  [][(pc = "inner" /\ p = lend /\ pc' = "outer") =>
       IF DType = "float32" /\ weight_column >= 0 /\ column_index > weight_column
       THEN out'.weight = Append(out.weight, weight)
       ELSE out'.weight = out.weight]_vars

\* C8: on return the number of rows is the number of lines of the block,
\* with label_count labels each; and in every row closed, the label slot of
\* a column the row does not have is 0.
C8_RowsAndLabels ==
  /\ pc = "done" =>
       /\ Rows = NumLines
       /\ Len(out.label) = out.label_count * NumLines
  /\ (pc = "outer" /\ Rows > 0) =>
       /\ \A c \in DOMAIN label_column_indices :
            c >= column_index =>
              out.label[(Rows - 1) * out.label_count + label_column_indices[c] + 1]
                = Num(0)
       /\ DOMAIN label_column_indices = {} => out.label[Rows] = Num(0)

\* C9: a byte-order mark is skipped at the start of the first line of the
\* block only: the line start moves past one only while no row is closed.
C9_BOMOnlyFirstLine ==
  [][(pc = "outer" /\ lbegin' # lbegin) => Rows = 0]_vars

\* C10: ParseBlock ends in Done or in a fatal failure, and in every state
\* the line start, the line end and the field cursor are in [begin, end].
C10_CursorsInBlock ==
  pc \in {"outer", "inner", "done", "fatal_delimiter", "fatal_check", "fault"} =>
    /\ pc # "fault"
    /\ begin <= lbegin /\ lbegin <= end
    /\ begin <= lend /\ lend <= end
    /\ begin <= p /\ p <= end

====
